---- MODULE Spec2Model ----
(***************************************************************************)
(* A model of the sci-hub download pipeline of src/sci_spider-fenqu.py:    *)
(* filename sanitisation, the persistent cache, the landing-page link      *)
(* extractor, the per-host throttle, the retrying downloads and the loop   *)
(* of sci_hub_crawler.                                                     *)
(*                                                                         *)
(* Python values are modelled as follows.  A str is a sequence of tokens   *)
(* (one-character strings for names and titles, URL pieces for URLs).  A   *)
(* dict is a function whose DOMAIN is its key set.  An Optional value is a *)
(* record with a kind field, so that None is a value of the same shape.    *)
(***************************************************************************)
EXTENDS Integers, Sequences, FiniteSets, TLC

VARIABLES
    \* ---- get_valid_filename ----
    fn_in, fn_len, fn_out, fn_again,
    \* ---- get_link_xpath ----
    xp_html, xp_result,
    \* ---- wait ----
    domains, now, delay, last_wait,
    \* ---- Cache ----
    cache_obj, cache, disk,
    \* ---- sci_hub_crawler ----
    doi_list, i, pc, rp, nolimit, num_retries, download_succ_cnt,
    html, result, retries_left, landing_resp, file_resp, waits,
    fetched_url, files, outcome, raised,
    \* ---- the requests sent, per host ----
    req_time, last_req, stamped,
    \* ---- the last operation on a Cache ----
    cache_op, write_failed

vars == <<fn_in, fn_len, fn_out, fn_again, xp_html, xp_result,
          domains, now, delay, last_wait, cache_obj, cache, disk,
          doi_list, i, pc, rp, nolimit, num_retries, download_succ_cnt,
          html, result, retries_left, landing_resp, file_resp, waits,
          fetched_url, files, outcome, raised,
          req_time, last_req, stamped, cache_op, write_failed>>

fnVars == <<fn_in, fn_len, fn_out, fn_again>>
xpVars == <<xp_html, xp_result>>
waitVars == <<domains, now, delay, last_wait>>
cacheVars == <<cache_obj, cache, disk>>
reqVars == <<req_time, last_req, stamped>>
opVars == <<cache_op, write_failed>>

(***************************************************************************)
(* Bounds of the model.                                                    *)
(***************************************************************************)
MaxLen == 3            \* longest file name given to get_valid_filename
ShortNameLen == 2      \* a name_len below MaxLen, so that the slice cuts
MaxElems == 2          \* most elements a selector matches on a page
MaxTime == 7           \* the clock of the throttle alone stops here
MaxOver == 1           \* longest time a call of wait takes beyond its sleep
MaxList == 2           \* longest list given to sci_hub_crawler
MaxRetries == 2        \* largest retry budget
RecursionLimit == 4    \* nested calls Python allows (above MaxRetries + 1)
MaxRequestTime == 2    \* longest time one request takes under SpecTimed

\* All sequences over S of length at most n.
SeqsUpTo(S, n) == UNION {[1..k -> S] : k \in 0..n}

Max(a, b) == IF a >= b THEN a ELSE b

(***************************************************************************)
(* get_valid_filename                                                      *)
(***************************************************************************)
Digits == {"0", "1", "2", "3", "4", "5", "6", "7", "8", "9"}
Upper == {"A", "B", "C", "D", "E", "F", "G", "H", "I", "J", "K", "L", "M",
          "N", "O", "P", "Q", "R", "S", "T", "U", "V", "W", "X", "Y", "Z"}
Lower == {"a", "b", "c", "d", "e", "f", "g", "h", "i", "j", "k", "l", "m",
          "n", "o", "p", "q", "r", "s", "t", "u", "v", "w", "x", "y", "z"}
\* The character class of the pattern, [0-9A-Za-z\-,._;], before its negation.
AllowedChars == Digits \cup Upper \cup Lower \cup {"-", ",", ".", "_", ";"}

\* The default of the name_len parameter.
DefaultNameLen == 128

\* The replacement string of re.sub.
SubChar == "_"

\* s[:n] for n >= 0.
Prefix(s, n) == SubSeq(s, 1, IF n < Len(s) THEN n ELSE Len(s))

\* A variant of the sanitiser that leaves out the slice [:name_len].
get_valid_filename_notrunc(filename, name_len) ==
    [k \in 1..Len(filename) |->
        IF filename[k] \in AllowedChars THEN filename[k] ELSE SubChar]
\* re.sub(r'[^0-9A-Za-z\-,._;]', '_', filename)[:name_len]
get_valid_filename(filename, name_len) ==
    Prefix([k \in 1..Len(filename) |->
                IF filename[k] \in AllowedChars THEN filename[k] ELSE SubChar],
           name_len)

(***************************************************************************)
(* get_link_xpath                                                          *)
(*                                                                         *)
(* A page is what the two selectors and the two title queries see of it:   *)
(* the onclick attribute of each matched element, in document order, and   *)
(* the text nodes of the citation container.  An onclick attribute is      *)
(* absent (None), or a script: a sequence of statements, each either an    *)
(* assignment location.href = '<url>' or something else.  The empty script *)
(* is the empty string.                                                    *)
(***************************************************************************)
NoUrl == <<>>
NoAttr == [has |-> FALSE, text |-> <<>>]
Attr(script) == [has |-> TRUE, text |-> script]
Href(url) == [href |-> TRUE, url |-> url]
OtherStmt == [href |-> FALSE, url |-> NoUrl]

NoneHtml == [kind |-> "None", buttons |-> <<>>, anchors |-> <<>>,
             citation_i |-> <<>>, citation_text |-> <<>>]
EmptyHtml == [kind |-> "empty", buttons |-> <<>>, anchors |-> <<>>,
              citation_i |-> <<>>, citation_text |-> <<>>]
Doc(b, a, ci, ct) == [kind |-> "doc", buttons |-> b, anchors |-> a,
                      citation_i |-> ci, citation_text |-> ct]

NoneResult == [kind |-> "None", title |-> <<>>, onclick |-> NoUrl]
Raise == [kind |-> "raise", title |-> <<>>, onclick |-> NoUrl]
Dict(title, onclick) == [kind |-> "dict", title |-> title, onclick |-> onclick]

\* Python truthiness of an attribute value: neither None nor ''.
Truthy(attr) == attr.has /\ Len(attr.text) > 0

\* The value of onclick after the for loop of lines 71-74: the attribute of
\* the first element whose attribute is truthy, else that of the last element.
RECURSIVE LoopOnclick(_)
LoopOnclick(a) ==
    IF Len(a) = 1 \/ Truthy(Head(a)) THEN Head(a) ELSE LoopOnclick(Tail(a))

\* re.findall(r"location.href\s*=\s*'(.*?)'", onclick): the URLs assigned.
RECURSIVE findall(_)
findall(script) ==
    IF Len(script) = 0 THEN <<>>
    ELSE IF Head(script).href THEN <<Head(script).url>> \o findall(Tail(script))
    ELSE findall(Tail(script))

\* The body of the try block, lines 62-80: a dict, None, or an exception.
TryLinkXpath(page) ==
    IF page.kind # "doc" THEN Raise                  \* fromstring(None), fromstring('')
    ELSE LET a == IF Len(page.buttons) = 0 THEN page.anchors ELSE page.buttons
         IN IF Len(a) = 0 THEN NoneResult
            ELSE LET onclick == LoopOnclick(a)
                     title == IF Len(page.citation_i) = 0 THEN page.citation_text
                              ELSE page.citation_i
                 IN IF ~onclick.has THEN Raise        \* re.findall(.., None)
                    ELSE IF Len(findall(onclick.text)) = 0 THEN Raise   \* [][0]
                    ELSE IF Len(title) = 0 THEN Raise                   \* title[0]
                    ELSE Dict(title[1], findall(onclick.text)[1])

\* A variant of the handler without the except clause.
get_link_xpath_nocatch(page) == TryLinkXpath(page)
\* Lines 59-83: except Exception turns every exception into None.
get_link_xpath(page) ==
    IF TryLinkXpath(page).kind = "raise" THEN NoneResult ELSE TryLinkXpath(page)

(***************************************************************************)
(* URLs.  A URL is a sequence of pieces: an optional scheme, a host piece  *)
(* ("//h" is the gateway, "//m" a mirror), path pieces, and backslashes.   *)
(***************************************************************************)
Schemes == {"https:", "http:"}
HostPieces == {"//h", "//m"}
Backslash == "\\"

\* urlparse(url).scheme is not empty.
HasScheme(url) == Len(url) > 0 /\ url[1] \in Schemes

\* urlparse(url).netloc
netloc(url) ==
    IF HasScheme(url) /\ Len(url) > 1 /\ url[2] \in HostPieces THEN url[2]
    ELSE IF Len(url) > 0 /\ url[1] \in HostPieces THEN url[1]
    ELSE ""

\* The default of start_url and of useSSL, lines 184-185.
start_url == "//h"
useSSL == TRUE

\* Lines 87-90: f"{protocol}://{start_url}/{doi}"
doi_parser(doi, host, ssl) == <<IF ssl THEN "https:" ELSE "http:", host, doi>>

NotBackslash(piece) == piece # Backslash

\* Lines 137-140: the URL download_pdf requests.
resolve_url(onclick) ==
    SelectSeq(IF HasScheme(onclick) THEN onclick ELSE <<"https:">> \o onclick,
              NotBackslash)

\* Line 223: the value sci_hub_crawler stores, f'https:{result["onclick"]}'
cache_value(onclick) == <<"https:">> \o onclick

(***************************************************************************)
(* wait: the per-host throttle.  Time is a clock of whole units.           *)
(***************************************************************************)
\* The default of the delay parameter, line 105.
DefaultDelay == 3

\* d[k] = v
\* A variant of the assignment d[k] = v that drops the other keys.
Put_only(d, k, v) == [x \in {k} |-> v]
Put(d, k, v) == [x \in DOMAIN d \cup {k} |-> IF x = k THEN v ELSE d[x]]

\* A variant that measures from the newest timestamp of any host.
sleep_secs_anyhost(url, d, doms, t) ==
    IF d > 0 /\ DOMAIN doms # {}
    THEN Max(0, d - (t - (CHOOSE x \in {doms[h] : h \in DOMAIN doms} :
                              \A h \in DOMAIN doms : doms[h] <= x)))
    ELSE 0
\* Lines 109-114: the seconds wait asks time.sleep for at time t; 0 when it
\* does not call time.sleep.
sleep_secs(url, d, doms, t) ==
    IF d > 0 /\ netloc(url) \in DOMAIN doms
    THEN Max(0, d - (t - doms[netloc(url)]))
    ELSE 0

\* The clock when wait returns: time.sleep(s) takes at least s, and the
\* call itself takes `over` more.
wait_return(url, d, doms, t, over) == t + sleep_secs(url, d, doms, t) + over

\* Line 115: domains[domain] = time.time()
wait_domains(url, d, doms, t, over) ==
    Put(doms, netloc(url), wait_return(url, d, doms, t, over))

\* What the last call of wait did.
WaitRecord(url, d, doms, t, over) ==
    <<[host |-> netloc(url),
       had |-> netloc(url) \in DOMAIN doms,
       prev |-> IF netloc(url) \in DOMAIN doms THEN doms[netloc(url)] ELSE 0,
       start |-> t,
       slept |-> sleep_secs(url, d, doms, t),
       ret |-> wait_return(url, d, doms, t, over)]>>

(***************************************************************************)
(* Cache: the in-memory dict and its backing file.                         *)
(***************************************************************************)
Missing == [kind |-> "missing", map |-> <<>>]
EmptyFile == [kind |-> "empty", map |-> <<>>]
Garbage == [kind |-> "garbage", map |-> <<>>]
Json(m) == [kind |-> "json", map |-> m]

\* Lines 44-55: the dict read_cache returns.
read_cache(file) == IF file.kind = "json" THEN file.map ELSE <<>>
\* A variant of read_cache that never opens the file for writing.
read_cache_file_nocreate(file, can_create) == file
\* Lines 47-55: the file read_cache leaves. A non-empty file is read and
\* left as it is, parsed or not; otherwise line 51 opens the file for
\* writing, which creates it unless the open fails (its directory may not
\* exist yet), and the except of line 54 swallows that failure.
read_cache_file(file, can_create) ==
    IF file.kind \in {"json", "garbage"} THEN file
    ELSE IF file.kind = "missing" /\ ~can_create THEN Missing
    ELSE EmptyFile

\* Line 33: self.cache.get(url), None for a key the dict does not hold.
getitem(d, k) ==
    IF k \in DOMAIN d THEN [found |-> TRUE, value |-> d[k]]
    ELSE [found |-> FALSE, value |-> <<>>]

\* A variant of the test of line 206 that looks the DOI up, not the URL.
cache_hit_bydoi(has, d, url) ==
    has /\ SubSeq(url, 3, 3) \in DOMAIN d /\ Len(d[SubSeq(url, 3, 3)]) > 0
\* Line 206: cache and cache[url], for the Cache object (None: has = FALSE)
\* and its dict.
cache_hit(has, d, url) == has /\ url \in DOMAIN d /\ Len(d[url]) > 0

\* Lines 38-42: the file after __setitem__ has stored into dict d. The
\* open, or the dump into the truncated file, may fail.
CacheWrites == {"ok", "open_fails", "dump_fails"}
\* A variant of __setitem__ whose open truncates the file and whose dump
\* writes nothing.
setitem_file_truncate(file, d, w) ==
    IF w = "ok" THEN EmptyFile ELSE IF w = "open_fails" THEN file ELSE Garbage
setitem_file(file, d, w) ==
    IF w = "ok" THEN Json(d) ELSE IF w = "open_fails" THEN file ELSE Garbage

(***************************************************************************)
(* Values the variables of an entry point hold while another one runs.     *)
(***************************************************************************)
FnIdle == fn_in = <<>> /\ fn_len = 0 /\ fn_out = <<>> /\ fn_again = <<>>
XpIdle == xp_html = NoneHtml /\ xp_result = NoneResult
WaitIdle == domains = <<>> /\ now = 0 /\ delay = 0 /\ last_wait = <<>>
CacheIdle == cache_obj = FALSE /\ cache = <<>> /\ disk = <<>>
CrawlIdle ==
    /\ doi_list = <<>> /\ i = 0 /\ rp = <<>> /\ nolimit = FALSE
    /\ num_retries = 0 /\ download_succ_cnt = 0 /\ html = NoneHtml
    /\ result = NoneResult /\ retries_left = 0 /\ landing_resp = <<>>
    /\ file_resp = <<>> /\ waits = 0 /\ fetched_url = NoUrl /\ files = {}
    /\ outcome = <<>> /\ raised = ""
ReqIdle == req_time = 0 /\ last_req = <<>> /\ stamped = {}
OpIdle == cache_op = <<>> /\ write_failed = {}

(***************************************************************************)
(* SpecFilename: get_valid_filename applied to every short string, twice.  *)
(***************************************************************************)
\* Characters of the inputs: some of the class, some outside it.
FnChars == {"a", "Z", "7", "-", "_", ";", "/", " "}
NameLens == {ShortNameLen, DefaultNameLen}

InitFilename ==
    /\ fn_in \in SeqsUpTo(FnChars, MaxLen)
    /\ fn_len \in NameLens
    /\ fn_out = <<>> /\ fn_again = <<>>
    /\ pc = "call"
    /\ XpIdle /\ WaitIdle /\ CacheIdle /\ CrawlIdle /\ ReqIdle /\ OpIdle

Sanitize ==
    /\ pc = "call"
    /\ fn_out' = get_valid_filename(fn_in, fn_len)
    /\ fn_again' = get_valid_filename(get_valid_filename(fn_in, fn_len), fn_len)
    /\ pc' = "return"
    /\ UNCHANGED <<fn_in, fn_len, xpVars, waitVars, cacheVars>>
    /\ UNCHANGED <<doi_list, i, rp, nolimit, num_retries, download_succ_cnt,
                   html, result, retries_left, landing_resp, file_resp, waits,
                   fetched_url, files, outcome, raised>>
    /\ UNCHANGED <<reqVars, opVars>>

NextFilename == Sanitize
SpecFilename == InitFilename /\ [][NextFilename]_vars

(***************************************************************************)
(* SpecXpath: get_link_xpath applied to every small page.                  *)
(***************************************************************************)
UrlRel == <<"//m", "/f.pdf">>                    \* //m/f.pdf
UrlAbs == <<"https:", "//m", "/f.pdf">>          \* https://m/f.pdf
UrlEsc == <<"\\", "//m", "\\", "/f.pdf">>        \* \//m\/f.pdf

TitleLong == <<"N", "o", ".", " ", "1", "/", "2">>
TitleShort == <<"A", " ", "b">>

AttrValues == {NoAttr, Attr(<<>>), Attr(<<OtherStmt>>), Attr(<<Href(UrlRel)>>),
               Attr(<<OtherStmt, Href(UrlAbs), Href(UrlRel)>>)}
XpPages ==
    {NoneHtml, EmptyHtml} \cup
    {Doc(b, a, ci, ct) : b \in SeqsUpTo(AttrValues, MaxElems),
                         a \in SeqsUpTo(AttrValues, MaxElems),
                         ci \in {<<>>, <<TitleLong>>},
                         ct \in {<<>>, <<TitleShort>>}}

InitXpath ==
    /\ xp_html \in XpPages
    /\ xp_result = NoneResult
    /\ pc = "call"
    /\ FnIdle /\ WaitIdle /\ CacheIdle /\ CrawlIdle /\ ReqIdle /\ OpIdle

Extract ==
    /\ pc = "call"
    /\ xp_result' = get_link_xpath(xp_html)
    /\ pc' = "return"
    /\ UNCHANGED <<xp_html, fnVars, waitVars, cacheVars>>
    /\ UNCHANGED <<doi_list, i, rp, nolimit, num_retries, download_succ_cnt,
                   html, result, retries_left, landing_resp, file_resp, waits,
                   fetched_url, files, outcome, raised>>
    /\ UNCHANGED <<reqVars, opVars>>

NextXpath == Extract
SpecXpath == InitXpath /\ [][NextXpath]_vars

(***************************************************************************)
(* SpecWait: calls of wait sharing one domains dict, with time passing     *)
(* between them.                                                           *)
(***************************************************************************)
WaitUrls == {doi_parser("/a", "//h", TRUE), doi_parser("/b", "//h", TRUE),
             doi_parser("/a", "//m", FALSE)}
Delays == {0, DefaultDelay}

InitWait ==
    /\ domains = <<>> /\ now = 0 /\ last_wait = <<>>
    /\ delay \in Delays
    /\ pc = "idle"
    /\ FnIdle /\ XpIdle /\ CacheIdle /\ CrawlIdle /\ ReqIdle /\ OpIdle

\* One call wait(url, delay, domains), lines 105-115.
WaitCall ==
    \E url \in WaitUrls, over \in 0..MaxOver :
        /\ wait_return(url, delay, domains, now, over) <= MaxTime
        /\ now' = wait_return(url, delay, domains, now, over)
        /\ domains' = wait_domains(url, delay, domains, now, over)
        /\ last_wait' = WaitRecord(url, delay, domains, now, over)
        /\ UNCHANGED <<delay, pc, fnVars, xpVars, cacheVars>>
        /\ UNCHANGED <<doi_list, i, rp, nolimit, num_retries, download_succ_cnt,
                       html, result, retries_left, landing_resp, file_resp,
                       waits, fetched_url, files, outcome, raised>>
        /\ UNCHANGED <<reqVars, opVars>>

\* Time passes between two calls.
Tick ==
    /\ now < MaxTime
    /\ now' = now + 1
    /\ UNCHANGED <<domains, delay, last_wait, pc, fnVars, xpVars, cacheVars>>
    /\ UNCHANGED <<doi_list, i, rp, nolimit, num_retries, download_succ_cnt,
                   html, result, retries_left, landing_resp, file_resp,
                   waits, fetched_url, files, outcome, raised>>
    /\ UNCHANGED <<reqVars, opVars>>

NextWait == WaitCall \/ Tick
SpecWait == InitWait /\ [][NextWait]_vars

(***************************************************************************)
(* SpecCache: one Cache object: its construction over a file, then lookups *)
(* and stores in any order.  cache_op records the last operation, its key, *)
(* what it returned or stored and how its file access went; write_failed   *)
(* holds the keys whose store could not write the file.                    *)
(***************************************************************************)
CacheKeys == {doi_parser("/a", start_url, useSSL),
              doi_parser("/b", start_url, useSSL)}
CacheValues == {cache_value(UrlRel), cache_value(UrlAbs)}
CacheFiles == {Missing, EmptyFile, Garbage, Json(<<>>),
               Json(Put(<<>>, doi_parser("/a", start_url, useSSL),
                        cache_value(UrlRel)))}
Op(op, k, found, v, w) ==
    [op |-> op, key |-> k, found |-> found, value |-> v, write |-> w]

InitCache ==
    /\ disk \in CacheFiles
    /\ cache_obj = FALSE /\ cache = <<>>
    /\ cache_op = <<>> /\ write_failed = {}
    /\ pc = "new"
    /\ FnIdle /\ XpIdle /\ WaitIdle /\ CrawlIdle /\ ReqIdle

\* Cache(cache_dir), lines 28-30 and 44-55.
Construct ==
    /\ pc = "new"
    /\ \E can_create \in BOOLEAN :
          /\ cache' = read_cache(disk)
          /\ disk' = read_cache_file(disk, can_create)
          /\ cache_op' = Op("init", <<>>, FALSE, <<>>,
                            IF can_create THEN "ok" ELSE "open_fails")
    /\ cache_obj' = TRUE
    /\ pc' = "ready"
    /\ UNCHANGED <<write_failed, fnVars, xpVars, waitVars, reqVars>>
    /\ UNCHANGED <<doi_list, i, rp, nolimit, num_retries, download_succ_cnt,
                   html, result, retries_left, landing_resp, file_resp, waits,
                   fetched_url, files, outcome, raised>>

\* cache[url], lines 32-33.
GetItem ==
    /\ pc = "ready"
    /\ \E k \in CacheKeys :
          cache_op' = Op("get", k, getitem(cache, k).found,
                         getitem(cache, k).value, "")
    /\ UNCHANGED <<cacheVars, pc, write_failed, fnVars, xpVars, waitVars,
                   reqVars>>
    /\ UNCHANGED <<doi_list, i, rp, nolimit, num_retries, download_succ_cnt,
                   html, result, retries_left, landing_resp, file_resp, waits,
                   fetched_url, files, outcome, raised>>

\* cache[url] = result, lines 35-42.
SetItem ==
    /\ pc = "ready"
    /\ \E k \in CacheKeys, v \in CacheValues, w \in CacheWrites :
          /\ cache' = Put(cache, k, v)
          /\ disk' = setitem_file(disk, Put(cache, k, v), w)
          /\ cache_op' = Op("set", k, TRUE, v, w)
          /\ write_failed' = IF w = "ok" THEN write_failed
                             ELSE write_failed \cup {k}
    /\ UNCHANGED <<cache_obj, pc, fnVars, xpVars, waitVars, reqVars>>
    /\ UNCHANGED <<doi_list, i, rp, nolimit, num_retries, download_succ_cnt,
                   html, result, retries_left, landing_resp, file_resp, waits,
                   fetched_url, files, outcome, raised>>

NextCache == Construct \/ GetItem \/ SetItem
SpecCache == InitCache /\ [][NextCache]_vars

(***************************************************************************)
(* download and download_pdf: one GET request and what follows it.         *)
(***************************************************************************)
\* A response of requests.get: a status code, or a RequestException.
Resp(code) == [exc |-> FALSE, status |-> code]
TransportError == [exc |-> TRUE, status |-> 0]
Responses == {Resp(200), Resp(404), Resp(503), TransportError}

\* Lines 123-124 and 145-146: the request is made again.
retry(r, budget) ==
    ~r.exc /\ r.status >= 400 /\ budget # 0 /\ 500 <= r.status /\ r.status < 600

\* A variant of the nested call that hands the budget on unchanged.
next_budget_same(budget) == budget
\* Lines 125 and 147: the budget of the nested call, num_retries - 1.
next_budget(budget) == budget - 1

\* Lines 123-131 and 145-160: the call receives r with the given budget left,
\* as the depth-th nested call: "retry" (a nested call), "overflow" (the
\* nested call exceeds the recursion limit), "fail" or "ok".
after_get(r, budget, depth) ==
    IF r.exc THEN "fail"
    ELSE IF retry(r, budget)
         THEN IF depth >= RecursionLimit THEN "overflow" ELSE "retry"
    ELSE IF r.status >= 400 THEN "fail"
    ELSE "ok"

(***************************************************************************)
(* Spec: one run of sci_hub_crawler.                                       *)
(*                                                                         *)
(* pc is the place of the run: "start", "loop" (the head of the for loop), *)
(* "wait", "download" (inside download), "parse" (download returned),      *)
(* "download_pdf" (inside download_pdf), "write" (its response arrived),   *)
(* "pdf_true" and "pdf_false" (download_pdf returned), "done" (the report  *)
(* is printed) and "raised" (an exception left sci_hub_crawler).           *)
(* The locals of one iteration are dead once the iteration ends and are    *)
(* set back to their initial values there.  Every request of a run takes   *)
(* req_time on the clock: none under Spec, whose clock so counts the time  *)
(* spent in time.sleep, and some under SpecTimed.  last_req holds, per     *)
(* host, the time the last request to it was sent; stamped holds the hosts *)
(* whose entry of domains wait has set since the last request to them.     *)
(***************************************************************************)
\* The items of the list: doi[0] and doi[2] (doi[1] is not read).
Items == {[doi |-> "/a", jcr |-> "Q1"], [doi |-> "/b", jcr |-> "Q2"]}
RetryBudgets == -1..MaxRetries

\* What get_robot_parser returns, lines 93-102: None, or a parser that
\* disallows some URLs for the user agent.
NoParser == [loaded |-> FALSE, disallowed |-> {}]
Parser(urls) == [loaded |-> TRUE, disallowed |-> urls]
RobotParsers == {NoParser, Parser({}), Parser({doi_parser("/a", start_url, useSSL)})}

\* rp.can_fetch(user_agent, url)
can_fetch(parser, url) == url \notin parser.disallowed

\* A variant of the test of line 211 that lets a missing parser pass.
allowed_noparser(parser, url, override) ==
    (~parser.loaded \/ can_fetch(parser, url)) \/ override
\* A variant of the test of line 211 that does not ask the parser.
allowed_nocheck(parser, url, override) == parser.loaded \/ override
\* Line 211: rp and rp.can_fetch(user_agent, url) or nolimit
allowed(parser, url, override) ==
    (parser.loaded /\ can_fetch(parser, url)) \/ override

\* The cache files a run may start from: what an earlier run left.
StartFiles == {Missing, EmptyFile, Garbage,
               Json(Put(<<>>, doi_parser("/a", start_url, useSSL),
                        cache_value(UrlRel)))}

\* The pages the gateway answers with.
CrawlPages ==
    {EmptyHtml,
     Doc(<<>>, <<>>, <<TitleLong>>, <<>>),
     Doc(<<Attr(<<OtherStmt>>)>>, <<>>, <<TitleLong>>, <<>>),
     Doc(<<Attr(<<Href(UrlRel)>>)>>, <<>>, <<TitleLong>>, <<>>),
     Doc(<<>>, <<NoAttr, Attr(<<Href(UrlRel)>>)>>, <<>>, <<TitleShort>>),
     Doc(<<Attr(<<>>), Attr(<<Href(UrlEsc)>>)>>, <<>>, <<TitleLong>>, <<>>),
     Doc(<<Attr(<<Href(UrlAbs)>>)>>, <<>>, <<>>, <<TitleLong>>)}

Url(k) == doi_parser(doi_list[k].doi, start_url, useSSL)

InitCrawl ==
    /\ doi_list \in SeqsUpTo(Items, MaxList)
    /\ nolimit \in BOOLEAN
    /\ num_retries \in RetryBudgets
    /\ delay = DefaultDelay
    /\ cache_obj \in BOOLEAN
    /\ \E file \in StartFiles, can_create \in BOOLEAN :
          /\ cache = IF cache_obj THEN read_cache(file) ELSE <<>>
          /\ disk = IF cache_obj THEN read_cache_file(file, can_create)
                    ELSE Missing
    /\ pc = "start"
    /\ i = 0 /\ rp = NoParser /\ download_succ_cnt = 0
    /\ domains = <<>> /\ now = 0 /\ last_wait = <<>>
    /\ html = NoneHtml /\ result = NoneResult /\ retries_left = 0
    /\ landing_resp = <<>> /\ file_resp = <<>> /\ waits = 0
    /\ fetched_url = NoUrl /\ files = {} /\ raised = ""
    /\ outcome = [k \in 1..Len(doi_list) |-> "PENDING"]
    /\ last_req = <<>> /\ stamped = {}
    /\ FnIdle /\ XpIdle /\ OpIdle

Init == InitCrawl /\ req_time = 0

\* A variant of the loop that passes over every other item.
next_item_skip(k) == k + 2
\* Line 203: for doi in doi_list, the position after position k.
next_item(k) == k + 1

\* A variant of the count that adds two.
incr_twice(cnt) == cnt + 2
\* Lines 208 and 224: download_succ_cnt += 1
incr(cnt) == cnt + 1

\* The end of one iteration of the loop with the given outcome.
EndItem(what) ==
    /\ outcome' = [outcome EXCEPT ![i] = what]
    /\ i' = next_item(i)
    /\ pc' = "loop"
    /\ html' = NoneHtml /\ result' = NoneResult /\ retries_left' = 0
    /\ landing_resp' = <<>> /\ file_resp' = <<>> /\ waits' = 0
    /\ fetched_url' = NoUrl

\* An exception leaves sci_hub_crawler.
RaiseOut(exception) ==
    /\ raised' = exception
    /\ pc' = "raised"
    /\ outcome' = [outcome EXCEPT ![i] = "RAISED"]

\* Lines 188-202: the policy is loaded, the counters are set.
Start ==
    /\ pc = "start"
    /\ rp' \in RobotParsers
    /\ domains' = <<>>
    /\ download_succ_cnt' = 0
    /\ i' = 1
    /\ pc' = "loop"
    /\ UNCHANGED <<fnVars, xpVars, cacheVars, now, delay, last_wait, doi_list,
                   nolimit, num_retries, html, result, retries_left,
                   landing_resp, file_resp, waits, fetched_url, files,
                   outcome, raised>>
    /\ UNCHANGED <<reqVars, opVars>>

\* Lines 203-211 and 225-226: the next item; the cache test; the policy test.
Iterate ==
    /\ pc = "loop" /\ i <= Len(doi_list)
    /\ IF cache_hit(cache_obj, cache, Url(i))
       THEN /\ download_succ_cnt' = incr(download_succ_cnt)
            /\ EndItem("CACHE_HIT")
       ELSE IF allowed(rp, Url(i), nolimit)
       THEN /\ pc' = "wait"
            /\ UNCHANGED <<download_succ_cnt, outcome, i, html, result,
                           retries_left, landing_resp, file_resp, waits,
                           fetched_url>>
       ELSE /\ EndItem("BLOCKED")
            /\ UNCHANGED download_succ_cnt
    /\ UNCHANGED <<fnVars, xpVars, cacheVars, waitVars, doi_list, rp, nolimit,
                   num_retries, files, raised>>
    /\ UNCHANGED <<reqVars, opVars>>

\* Line 212: wait(url, delay, domains); then download is entered.
Wait ==
    /\ pc = "wait"
    /\ now' = wait_return(Url(i), delay, domains, now, 0)
    /\ domains' = wait_domains(Url(i), delay, domains, now, 0)
    /\ waits' = waits + 1
    /\ retries_left' = num_retries
    /\ pc' = "download"
    /\ UNCHANGED <<fnVars, xpVars, cacheVars, delay, last_wait, doi_list, i,
                   rp, nolimit, num_retries, download_succ_cnt, html, result,
                   landing_resp, file_resp, fetched_url, files, outcome,
                   raised>>
    /\ stamped' = stamped \cup {netloc(Url(i))}
    /\ UNCHANGED <<req_time, last_req, opVars>>

\* Lines 118-131: one GET of the landing page and what download does with it.
DownloadGet ==
    /\ pc = "download"
    /\ \E r \in Responses :
          /\ landing_resp' = Append(landing_resp, r)
          /\ LET next == after_get(r, retries_left, Len(landing_resp) + 1)
             IN CASE next = "retry" ->
                       /\ retries_left' = next_budget(retries_left)
                       /\ UNCHANGED <<pc, html, raised, outcome>>
                  [] next = "overflow" ->
                       /\ RaiseOut("RecursionError")
                       /\ UNCHANGED <<retries_left, html>>
                  [] next = "ok" ->
                       /\ html' \in CrawlPages
                       /\ pc' = "parse"
                       /\ UNCHANGED <<retries_left, raised, outcome>>
                  [] OTHER ->
                       /\ html' = NoneHtml
                       /\ pc' = "parse"
                       /\ UNCHANGED <<retries_left, raised, outcome>>
    /\ now' = now + req_time
    /\ last_req' = Put(last_req, netloc(Url(i)), now)
    /\ stamped' = stamped \ {netloc(Url(i))}
    /\ UNCHANGED <<fnVars, xpVars, cacheVars, domains, delay, last_wait,
                   doi_list, i, rp, nolimit, num_retries, download_succ_cnt,
                   result, file_resp, waits, fetched_url, files, req_time,
                   opVars>>

\* Lines 214-219 and 137-142: the link is extracted; download_pdf is
\* entered and resolves the URL it will request.
Parse ==
    /\ pc = "parse"
    /\ IF get_link_xpath(html).kind = "dict"
       THEN /\ result' = get_link_xpath(html)
            /\ fetched_url' = resolve_url(get_link_xpath(html).onclick)
            /\ retries_left' = num_retries
            /\ pc' = "download_pdf"
            /\ html' = NoneHtml /\ landing_resp' = <<>>
            /\ UNCHANGED <<outcome, i, file_resp, waits>>
       ELSE EndItem(IF html.kind = "None" THEN "FETCH_FAILED" ELSE "NOT_FOUND")
    /\ UNCHANGED <<fnVars, xpVars, cacheVars, waitVars, doi_list, rp, nolimit,
                   num_retries, download_succ_cnt, files, raised>>
    /\ UNCHANGED <<reqVars, opVars>>

\* Lines 143-149 and 158-160: one GET of the file and what download_pdf
\* does with it.
DownloadPdfGet ==
    /\ pc = "download_pdf"
    /\ \E r \in Responses :
          /\ file_resp' = Append(file_resp, r)
          /\ LET next == after_get(r, retries_left, Len(file_resp) + 1)
             IN CASE next = "retry" ->
                       /\ retries_left' = next_budget(retries_left)
                       /\ UNCHANGED <<pc, raised, outcome>>
                  [] next = "overflow" ->
                       /\ RaiseOut("RecursionError")
                       /\ UNCHANGED retries_left
                  [] next = "ok" ->
                       /\ pc' = "write"
                       /\ UNCHANGED <<retries_left, raised, outcome>>
                  [] OTHER ->
                       /\ pc' = "pdf_false"
                       /\ UNCHANGED <<retries_left, raised, outcome>>
    /\ now' = now + req_time
    /\ last_req' = Put(last_req, netloc(fetched_url), now)
    /\ stamped' = stamped \ {netloc(fetched_url)}
    /\ UNCHANGED <<fnVars, xpVars, cacheVars, domains, delay, last_wait,
                   doi_list, i, rp, nolimit, num_retries, download_succ_cnt,
                   html, result, landing_resp, waits, fetched_url, files,
                   req_time, opVars>>

\* Line 221 passes the item doi, a list, as the fallback name.
FallbackIsStr == FALSE

\* Lines 151-157: the file name; the file is written. A title shorter than
\* 5 hands the list doi to re.sub, a TypeError; a failed open or write is
\* an OSError. Neither is a RequestException.
WriteFile ==
    /\ pc = "write"
    /\ IF Len(result.title) < 5 /\ ~FallbackIsStr
       THEN RaiseOut("TypeError") /\ UNCHANGED files
       ELSE \E written \in BOOLEAN :
               IF written
               THEN /\ files' = files \cup
                        {<<doi_list[i].jcr,
                           get_valid_filename(result.title, DefaultNameLen),
                           ".pdf">>}
                    /\ pc' = "pdf_true"
                    /\ UNCHANGED <<raised, outcome>>
               ELSE RaiseOut("OSError") /\ UNCHANGED files
    /\ UNCHANGED <<fnVars, xpVars, cacheVars, waitVars, doi_list, i, rp,
                   nolimit, num_retries, download_succ_cnt, html, result,
                   retries_left, landing_resp, file_resp, waits, fetched_url>>
    /\ UNCHANGED <<reqVars, opVars>>

\* Lines 221-224: download_pdf returned True; the cache entry, the counter.
Store ==
    /\ pc = "pdf_true"
    /\ IF cache_obj
       THEN \E w \in CacheWrites :
               /\ cache' = Put(cache, Url(i), cache_value(result.onclick))
               /\ disk' = setitem_file(disk,
                              Put(cache, Url(i), cache_value(result.onclick)), w)
       ELSE UNCHANGED <<cache, disk>>
    /\ download_succ_cnt' = incr(download_succ_cnt)
    /\ EndItem("SAVED")
    /\ UNCHANGED <<fnVars, xpVars, cache_obj, waitVars, doi_list, rp, nolimit,
                   num_retries, files, raised>>
    /\ UNCHANGED <<reqVars, opVars>>

\* Line 221: download_pdf returned False; nothing is stored or counted.
Failed ==
    /\ pc = "pdf_false"
    /\ EndItem("DOWNLOAD_FAILED")
    /\ UNCHANGED <<fnVars, xpVars, cacheVars, waitVars, doi_list, rp, nolimit,
                   num_retries, download_succ_cnt, files, raised>>
    /\ UNCHANGED <<reqVars, opVars>>

\* Line 228: the report, after the last item.
Finish ==
    /\ pc = "loop" /\ i > Len(doi_list)
    /\ pc' = "done"
    /\ UNCHANGED <<fnVars, xpVars, cacheVars, waitVars, doi_list, i, rp,
                   nolimit, num_retries, download_succ_cnt, html, result,
                   retries_left, landing_resp, file_resp, waits, fetched_url,
                   files, outcome, raised>>
    /\ UNCHANGED <<reqVars, opVars>>

Next ==
    \/ Start \/ Iterate \/ Wait \/ DownloadGet \/ Parse \/ DownloadPdfGet
    \/ WriteFile \/ Store \/ Failed \/ Finish
Spec == Init /\ [][Next]_vars

(***************************************************************************)
(* SpecTimed: runs of sci_hub_crawler without a cache whose requests take  *)
(* time, under the override and with the largest retry budget.             *)
(***************************************************************************)
InitTimed ==
    /\ InitCrawl
    /\ nolimit /\ ~cache_obj /\ disk = Missing /\ num_retries = MaxRetries
    /\ req_time \in 1..MaxRequestTime

SpecTimed == InitTimed /\ [][Next]_vars

(***************************************************************************)
(* Properties of sci_hub_crawler, checked under Spec.                      *)
(***************************************************************************)
IsCacheKey(k) == cache_obj /\ Url(k) \in DOMAIN cache
AtItem == pc = "loop" /\ i <= Len(doi_list)
NoRequestMade == landing_resp' = <<>> /\ file_resp' = <<>> /\ waits' = 0
                 /\ UNCHANGED <<domains, now>>
Is5xx(r) == ~r.exc /\ 500 <= r.status /\ r.status < 600
All5xx(resp) == \A k \in 1..Len(resp) : Is5xx(resp[k])
Last(resp) == resp[Len(resp)]

\* C1: an identifier whose landing URL is a key of the cache when the loop
\* reaches it costs no GET and no throttle wait, and adds one to the
\* success counter.
C1_CacheHitSkipsNetwork ==
    [][(AtItem /\ IsCacheKey(i)) =>
          /\ pc' = "loop" /\ i' = i + 1
          /\ outcome'[i] = "CACHE_HIT"
          /\ download_succ_cnt' = download_succ_cnt + 1
          /\ NoRequestMade]_vars

C1_Witness ==
    /\ pc = "done" /\ Len(doi_list) = 2
    /\ outcome[1] = "SAVED" /\ outcome[2] = "CACHE_HIT"
    /\ download_succ_cnt = 2

\* C2: with a budget n >= 0 and only 5xx responses, download and
\* download_pdf make exactly n + 1 requests and then return failure; no
\* call makes more than n + 1 requests.
C2_RetriesExactlyBudget ==
    num_retries >= 0 =>
        /\ Len(landing_resp) <= num_retries + 1
        /\ Len(file_resp) <= num_retries + 1
        /\ (landing_resp # <<>> /\ All5xx(landing_resp) /\ pc # "download") =>
              /\ pc = "parse" /\ html = NoneHtml
              /\ Len(landing_resp) = num_retries + 1
        /\ (file_resp # <<>> /\ All5xx(file_resp) /\ pc # "download_pdf") =>
              /\ pc = "pdf_false"
              /\ Len(file_resp) = num_retries + 1

C2_Witness ==
    /\ num_retries = MaxRetries /\ pc = "pdf_false"
    /\ All5xx(file_resp) /\ Len(file_resp) = MaxRetries + 1

\* C3: in download and download_pdf a response >= 400 outside [500,600) or
\* a transport failure ends the call with failure and no further request,
\* and a response < 400 ends the call with success.
C3_ResponseEndsCall ==
    /\ (landing_resp # <<>> /\ ~Is5xx(Last(landing_resp))) =>
          /\ pc = "parse"
          /\ (html = NoneHtml) <=>
                (Last(landing_resp).exc \/ Last(landing_resp).status >= 400)
    /\ (file_resp # <<>> /\ ~Is5xx(Last(file_resp))) =>
          IF Last(file_resp).exc \/ Last(file_resp).status >= 400
          THEN pc = "pdf_false"
          ELSE pc \in {"write", "pdf_true"}

\* C4: an identifier that is no cache hit and whose landing URL the loaded
\* policy disallows, without the override, costs no GET, is not counted
\* and is reported as blocked.
C4_DisallowedIsBlocked ==
    [][(AtItem /\ ~cache_hit(cache_obj, cache, Url(i))
          /\ rp.loaded /\ ~can_fetch(rp, Url(i)) /\ ~nolimit) =>
          /\ pc' = "loop" /\ i' = i + 1
          /\ outcome'[i] = "BLOCKED"
          /\ download_succ_cnt' = download_succ_cnt
          /\ NoRequestMade]_vars

C4_Witness ==
    /\ rp.loaded /\ ~nolimit /\ pc = "done"
    /\ \E k \in 1..Len(doi_list) : outcome[k] = "BLOCKED"
    /\ \E k \in 1..Len(doi_list) : outcome[k] = "SAVED"

\* C5: when get_robot_parser returns None the run goes on; without the
\* override every identifier that is no cache hit is blocked with no
\* request, with the override it enters the fetch pipeline.
C5_NoPolicyBlocksUnlessOverride ==
    [][/\ (pc = "start" /\ ~rp'.loaded) => (pc' = "loop" /\ raised' = "")
       /\ (AtItem /\ ~cache_hit(cache_obj, cache, Url(i)) /\ ~rp.loaded) =>
             IF nolimit
             THEN pc' = "wait" /\ i' = i /\ outcome'[i] = "PENDING"
             ELSE /\ pc' = "loop" /\ i' = i + 1
                  /\ outcome'[i] = "BLOCKED"
                  /\ download_succ_cnt' = download_succ_cnt
                  /\ NoRequestMade]_vars

C5_Witness ==
    /\ ~rp.loaded /\ nolimit /\ pc = "done"
    /\ \E k \in 1..Len(doi_list) : outcome[k] = "SAVED"

\* C6: whatever happens to one identifier, the run goes on to the later
\* identifiers and to its final report: no exception leaves sci_hub_crawler.
C6_RunNeverAborts == num_retries >= 0 => pc # "raised"

\* C7: when an identifier is saved, the cache maps its landing URL to the
\* URL the file was fetched from.
C7_CacheHoldsFetchedUrl ==
    [][(pc = "pdf_true" /\ cache_obj) =>
          /\ Url(i) \in DOMAIN cache'
          /\ cache'[Url(i)] = fetched_url]_vars

(***************************************************************************)
(* Properties of get_valid_filename, checked under SpecFilename.           *)
(***************************************************************************)
\* C8: get_valid_filename is idempotent; its output is no longer than
\* name_len, 128 by default, and holds only characters of the class.
C8_SanitizeIdempotent ==
    pc = "return" =>
        /\ fn_again = fn_out
        /\ Len(fn_out) <= fn_len /\ Len(fn_out) <= DefaultNameLen
        /\ \A k \in 1..Len(fn_out) : fn_out[k] \in AllowedChars

C8_Witness ==
    /\ pc = "return" /\ Len(fn_in) > fn_len /\ Len(fn_out) = fn_len
    /\ \E k \in 1..Len(fn_out) : fn_in[k] \notin AllowedChars

(***************************************************************************)
(* Properties of wait, checked under SpecWait.                             *)
(***************************************************************************)
\* C9: the first call of wait for a host does not sleep; a later call for
\* the host returns no earlier than delay after the time the previous call
\* for it recorded; a call sleeps only on account of its own host's time;
\* every call records the time of its return for its host.
C9_ThrottlePerHost ==
    last_wait # <<>> =>
        LET w == last_wait[1]
        IN /\ ~w.had => w.slept = 0
           /\ w.had => w.ret >= w.prev + delay
           /\ w.slept > 0 => (w.had /\ w.start - w.prev < delay)
           /\ w.host \in DOMAIN domains /\ domains[w.host] = w.ret

C9_Witness ==
    /\ last_wait # <<>> /\ last_wait[1].had /\ last_wait[1].slept > 0
    /\ last_wait[1].host = "//h" /\ "//m" \in DOMAIN domains
    /\ domains["//m"] > last_wait[1].prev

(***************************************************************************)
(* Properties of get_link_xpath, checked under SpecXpath.                  *)
(***************************************************************************)
Matched(page) == IF Len(page.buttons) = 0 THEN page.anchors ELSE page.buttons
CarriesOnclick(e) == e.has
TitleOf(page) == IF Len(page.citation_i) = 0 THEN page.citation_text
                 ELSE page.citation_i

\* The URL the extractor is to return, given the elements it may choose
\* from: that of the first of them.
UrlFromFirst(elems, res) ==
    /\ Len(elems) > 0
    /\ Len(findall(elems[1].text)) > 0
    /\ res.onclick = findall(elems[1].text)[1]

\* C10 as stated: get_link_xpath never raises, returns None or a URL with
\* a title, returns None when no selector matches, and takes the URL from
\* the first matched element that carries an onclick attribute.
C10_FirstCarryingElement ==
    pc = "return" =>
        /\ xp_result.kind \in {"None", "dict"}
        /\ (Len(xp_html.buttons) = 0 /\ Len(xp_html.anchors) = 0) =>
              xp_result.kind = "None"
        /\ xp_result.kind = "dict" =>
              /\ Len(TitleOf(xp_html)) > 0
              /\ xp_result.title = TitleOf(xp_html)[1]
              /\ UrlFromFirst(SelectSeq(Matched(xp_html), CarriesOnclick),
                              xp_result)

\* C10 as amended: the URL is taken from the first matched element whose
\* onclick attribute is not empty.
C10_FirstNonEmptyOnclick ==
    pc = "return" =>
        /\ xp_result.kind \in {"None", "dict"}
        /\ (Len(xp_html.buttons) = 0 /\ Len(xp_html.anchors) = 0) =>
              xp_result.kind = "None"
        /\ xp_result.kind = "dict" =>
              /\ Len(TitleOf(xp_html)) > 0
              /\ xp_result.title = TitleOf(xp_html)[1]
              /\ UrlFromFirst(SelectSeq(Matched(xp_html), Truthy), xp_result)

C10_Witness ==
    /\ pc = "return" /\ xp_result.kind = "dict"
    /\ Len(xp_html.buttons) = 2 /\ xp_html.buttons[1] = Attr(<<>>)
    /\ xp_result.onclick = UrlAbs

(***************************************************************************)
(* Properties of the requests of a run, checked under SpecTimed.           *)
(***************************************************************************)
\* A step from these positions sends one GET: to the host of the landing
\* page, or to the host of the file.
SendsGet == pc \in {"download", "download_pdf"}
GetHost == IF pc = "download" THEN netloc(Url(i)) ELSE netloc(fetched_url)

\* C11: every request (a landing GET, a retry of it after a 5xx, a file
\* GET) is sent after wait has set the timestamp of its host since the
\* last request to that host, and at least delay after that last request.
C11_RequestsSpaced ==
    [][SendsGet =>
          /\ GetHost \in stamped
          /\ GetHost \in DOMAIN last_req => now - last_req[GetHost] >= delay]_vars

(***************************************************************************)
(* Properties of the loop of sci_hub_crawler, checked under Spec.          *)
(***************************************************************************)
Terminal == {"CACHE_HIT", "BLOCKED", "FETCH_FAILED", "NOT_FOUND",
             "DOWNLOAD_FAILED", "SAVED"}
Succeeded(resp) == resp # <<>> /\ ~Last(resp).exc /\ Last(resp).status < 400

\* C12: per identifier, the throttle wait precedes the landing GET; the
\* file GET is reached only after a successful landing GET whose page gave
\* a URL and a title; the cache is written only for a saved file; and the
\* identifier ends, once, in one of the six terminal states, whatever ends
\* the run. Stated for retry budgets of zero and more.
C12_ItemStateMachine ==
    [][num_retries >= 0 =>
          /\ pc = "download" => waits = 1
          /\ pc' = "download_pdf" /\ pc # "download_pdf" =>
                /\ Succeeded(landing_resp)
                /\ get_link_xpath(html).kind = "dict"
          /\ cache' # cache \/ disk' # disk =>
                pc = "pdf_true" /\ outcome'[i] = "SAVED"
          /\ \A k \in 1..Len(doi_list) :
                outcome'[k] # outcome[k] =>
                    k = i /\ outcome[k] = "PENDING" /\ outcome'[k] \in Terminal
          /\ pc' \in {"done", "raised"} /\ i <= Len(doi_list) =>
                outcome'[i] \in Terminal]_vars

\* The name the file of the current item is to get: the title, or the DOI
\* string when the title is shorter than 5 characters, sanitised.
ExpectedName ==
    get_valid_filename(IF Len(result.title) >= 5 THEN result.title
                       ELSE <<doi_list[i].doi>>, DefaultNameLen)

\* C13: once the file GET has succeeded and the write does not fail, the
\* file is in the directory of the item's bucket under the sanitised title,
\* or under the sanitised DOI when the title is shorter than 5 characters,
\* and the item then ends as SAVED.
C13_SavedUnderTitleOrDoi ==
    [][/\ pc = "write" /\ raised' # "OSError" =>
             /\ pc' = "pdf_true"
             /\ <<doi_list[i].jcr, ExpectedName, ".pdf">> \in files'
       /\ pc = "pdf_true" => outcome'[i] = "SAVED"]_vars

(***************************************************************************)
(* Properties of Cache, checked under SpecCache.                           *)
(***************************************************************************)
\* C14, as claimed: constructing a Cache does not raise; a file that
\* exists, is not empty and parses gives its mapping; a missing, an empty
\* and an unparsable file each give the empty mapping and leave an empty
\* file behind.
C14_ConstructLeavesEmptyFile ==
    [][pc = "new" =>
          /\ pc' = "ready"
          /\ disk.kind = "json" => cache' = disk.map /\ disk' = disk
          /\ disk.kind # "json" => cache' = <<>> /\ disk' = EmptyFile]_vars

\* C14, amended: constructing a Cache does not raise; a file that exists,
\* is not empty and parses gives its mapping and is left as it is; a
\* missing, an empty and an unparsable file each give the empty mapping;
\* an empty file stays empty, a missing file is created empty unless it
\* cannot be opened for writing (then it stays missing), and an unparsable
\* file is left as it is.
C14_ConstructReadsOrStartsEmpty ==
    [][pc = "new" =>
          /\ pc' = "ready"
          /\ disk.kind = "json" => cache' = disk.map /\ disk' = disk
          /\ disk.kind # "json" => cache' = <<>>
          /\ disk.kind = "empty" => disk' = EmptyFile
          /\ disk.kind = "missing" =>
                disk' = IF cache_op'.write = "ok" THEN EmptyFile ELSE Missing
          /\ disk.kind = "garbage" => disk' = disk]_vars

\* A Cache just constructed over an unparsable file: empty in memory, the
\* file still unparsable.
C14_Witness ==
    /\ pc = "ready" /\ cache_op # <<>> /\ cache_op.op = "init"
    /\ cache = <<>> /\ disk = Garbage

\* C15: a store never raises and leaves the Cache usable, its entry is in
\* memory whether or not the file could be written, and a store whose
\* write succeeds leaves on disk the whole in-memory mapping, the entries
\* whose own write had failed included.
C15_FailedWriteKeptAndCaughtUp ==
    [][pc = "ready" /\ cache_op'.op = "set" =>
          /\ pc' = "ready"
          /\ cache_op'.key \in DOMAIN cache'
          /\ cache'[cache_op'.key] = cache_op'.value
          /\ cache_op'.write = "ok" =>
                /\ disk' = Json(cache')
                /\ write_failed' \subseteq DOMAIN disk'.map]_vars

\* A store of one key has written the file after the store of another key
\* could not: the file holds both.
C15_Witness ==
    /\ pc = "ready" /\ cache_op.op = "set" /\ cache_op.write = "ok"
    /\ write_failed # {} /\ cache_op.key \notin write_failed
    /\ write_failed \subseteq DOMAIN cache
    /\ disk = Json(cache)

\* C16: the key set of the in-memory mapping only grows; a store for a key
\* adds that key and changes the value of no other key; a lookup returns
\* the value held and changes neither the mapping nor the file.
C16_StoreTouchesOneKey ==
    [][pc = "ready" =>
          /\ DOMAIN cache \subseteq DOMAIN cache'
          /\ cache_op'.op = "set" =>
                /\ DOMAIN cache' = DOMAIN cache \cup {cache_op'.key}
                /\ \A x \in DOMAIN cache \ {cache_op'.key} :
                      cache'[x] = cache[x]
          /\ cache_op'.op = "get" =>
                /\ UNCHANGED <<cache, disk>>
                /\ cache_op'.found = (cache_op'.key \in DOMAIN cache)
                /\ cache_op'.found => cache_op'.value = cache[cache_op'.key]]_vars

\* A lookup of a key held by a Cache of two keys.
C16_Witness ==
    /\ pc = "ready" /\ cache_op.op = "get" /\ cache_op.found
    /\ Cardinality(DOMAIN cache) = 2

(***************************************************************************)
(* More properties of sci_hub_crawler, checked under Spec.                 *)
(***************************************************************************)
\* C17: with a retry budget of zero or less, a 5xx answer to the first GET
\* of a call of download or download_pdf ends that call as a failure: no
\* second GET is sent.
C17_NoRetryWithoutBudget ==
    num_retries <= 0 =>
        /\ landing_resp # <<>> /\ Is5xx(landing_resp[1]) =>
              Len(landing_resp) = 1 /\ pc = "parse" /\ html = NoneHtml
        /\ file_resp # <<>> /\ Is5xx(file_resp[1]) =>
              Len(file_resp) = 1 /\ pc = "pdf_false"

Pending(k) == outcome[k] = "PENDING"
\* A step with an effect outside the program's own variables: a wait, a
\* request, a file written, a cache entry stored.
HasEffect ==
    \/ domains' # domains \/ last_req' # last_req \/ now' # now
    \/ landing_resp' # landing_resp \/ file_resp' # file_resp
    \/ files' # files \/ cache' # cache \/ disk' # disk

\* C18: the items are processed in list order, one at a time and each
\* once: the position moves by single steps; every item before it has its
\* outcome and none after it has one; an outcome is given to the item at
\* the position only, and once; every wait, request, file write and cache
\* write is made for the item at the position, before it has its outcome;
\* and a run that reaches its report has processed every item.
C18_InListOrder ==
    [][/\ i' \in {i, i + 1}
       /\ \A k \in 1..Len(doi_list) :
             /\ k < i' => ~Pending(k)'
             /\ k > i' => Pending(k)'
             /\ outcome'[k] # outcome[k] => k = i /\ Pending(k)
       /\ HasEffect =>
             /\ i \in 1..Len(doi_list) /\ Pending(i)
             /\ \A k \in 1..(i - 1) : ~Pending(k)
             /\ cache' # cache => DOMAIN cache' = DOMAIN cache \cup {Url(i)}
             /\ files' # files =>
                   \A f \in files' \ files : f[1] = doi_list[i].jcr
       /\ pc' = "done" =>
             /\ i' = Len(doi_list) + 1
             /\ \A k \in 1..Len(doi_list) : ~Pending(k)']_vars

\* A run over two items that saved the first and then found no link for
\* the second.
C18_Witness ==
    /\ pc = "done" /\ Len(doi_list) = 2
    /\ outcome = <<"SAVED", "NOT_FOUND">>

Counted ==
    Cardinality({k \in 1..Len(doi_list) : outcome[k] \in {"CACHE_HIT", "SAVED"}})
Processed == Cardinality({k \in 1..Len(doi_list) : ~Pending(k)})

\* C19: the success counter never exceeds the number of items processed;
\* it is the number of items that ended as CACHE_HIT or SAVED, each counted
\* once and no other outcome counted; at the report the items processed
\* are those of the list, the total reported.
C19_CounterMatchesOutcomes ==
    /\ download_succ_cnt <= Processed
    /\ download_succ_cnt = Counted
    /\ pc = "done" => Processed = Len(doi_list)

\* A finished run that counted one of its two items: a failed file
\* download, then a cache hit.
C19_Witness ==
    /\ pc = "done" /\ Len(doi_list) = 2
    /\ outcome = <<"DOWNLOAD_FAILED", "CACHE_HIT">>
    /\ download_succ_cnt = 1

\* C20: in a run given a Cache, whether or not its file could be written,
\* an item saved makes every later item of the same landing URL a cache
\* hit decided at the loop head, so that no landing URL is saved twice.
C20_SavedThenCacheHit ==
    cache_obj =>
        \A j, k \in 1..Len(doi_list) :
            j < k /\ Url(j) = Url(k) /\ outcome[j] = "SAVED" =>
                /\ outcome[k] \in {"PENDING", "CACHE_HIT"}
                /\ k = i => pc \in {"loop", "done"}

\* The same item twice: saved, its cache entry not written to the file,
\* then a cache hit.
C20_Witness ==
    /\ cache_obj /\ pc = "done" /\ Len(doi_list) = 2
    /\ doi_list[1] = doi_list[2]
    /\ outcome = <<"SAVED", "CACHE_HIT">>
    /\ disk # Json(cache)

====
